---- MODULE Spec2Model ----
(***************************************************************************)
(* Error surface of the Solana relay (rust/solana-relay/src/errors.rs):    *)
(* the RelayError enumeration, the conversion of the SPV engine's SPVError *)
(* into it, the conversion of RelayError into ProgramError::Custom(code),  *)
(* the derived FromPrimitive decoding of a code, and the printing of an    *)
(* error to the program log.                                               *)
(*                                                                         *)
(* An enumeration value is a record [enum, variant]; the conversions are   *)
(* written arm by arm as the match expressions of the source are.          *)
(***************************************************************************)
EXTENDS Naturals, Sequences, FiniteSets, TLC

VARIABLES pc, spvErr, relayErr, progErr, decoded, log

vars == <<pc, spvErr, relayErr, progErr, decoded, log>>

\* Number of messages the program log holds before the model stops printing.
MaxLog == 1

\* Largest raw code the host hands to the derived from_u32.
MaxCode == 23

None == [enum |-> "Option", variant |-> "None"]

SPV(n) == [enum |-> "SPVError", variant |-> n]

Relay(n) == [enum |-> "RelayError", variant |-> n]

\* Variants of bitcoin_spv's SPVError: the arms of the wildcard-free match
\* in From<SPVError>, which the compiler requires to be exhaustive.
SPVErrorVariants ==
    { SPV("ReadOverrun"), SPV("BadCompactInt"),
      SPV("MalformattedOpReturnOutput"), SPV("MalformattedP2SHOutput"),
      SPV("MalformattedP2PKHOutput"), SPV("MalformattedWitnessOutput"),
      SPV("MalformattedOutput"), SPV("WrongLengthHeader"),
      SPV("UnexpectedDifficultyChange"), SPV("InsufficientWork"),
      SPV("InvalidChain"), SPV("WrongDigest"), SPV("WrongMerkleRoot"),
      SPV("WrongPrevHash"), SPV("InvalidVin"), SPV("InvalidVout"),
      SPV("WrongTxID"), SPV("BadMerkleProof"),
      SPV("OutputLengthMismatch"), SPV("UnknownError") }

\* pub enum RelayError, in declaration order.
RelayErrorDecl ==
    << Relay("AlreadyInit"), Relay("InsufficientStateSpace"),
       Relay("ReadOverrun"), Relay("BadCompactInt"),
       Relay("MalformattedOpReturnOutput"), Relay("MalformattedP2SHOutput"),
       Relay("MalformattedP2PKHOutput"), Relay("MalformattedWitnessOutput"),
       Relay("MalformattedOutput"), Relay("WrongLengthHeader"),
       Relay("UnexpectedDifficultyChange"), Relay("InsufficientWork"),
       Relay("InvalidChain"), Relay("WrongDigest"), Relay("WrongMerkleRoot"),
       Relay("WrongPrevHash"), Relay("InvalidVin"), Relay("InvalidVout"),
       Relay("WrongTxID"), Relay("BadMerkleProof"),
       Relay("OutputLengthMismatch"), Relay("UnknownError") >>

RelayErrorVariants == { RelayErrorDecl[i] : i \in 1..Len(RelayErrorDecl) }

\* The #[error("...")] attribute of each variant: its Display string.
Display(e) ==
    CASE e = Relay("AlreadyInit") -> "AlreadyInit"
      [] e = Relay("InsufficientStateSpace") -> "InsufficientStateSpace"
      [] e = Relay("ReadOverrun") -> "ReadOverrun"
      [] e = Relay("BadCompactInt") -> "BadCompactInt"
      [] e = Relay("MalformattedOpReturnOutput") -> "MalformattedOpReturnOutput"
      [] e = Relay("MalformattedP2SHOutput") -> "MalformattedP2SHOutput"
      [] e = Relay("MalformattedP2PKHOutput") -> "MalformattedP2PKHOutput"
      [] e = Relay("MalformattedWitnessOutput") -> "MalformattedWitnessOutput"
      [] e = Relay("MalformattedOutput") -> "MalformattedOutput"
      [] e = Relay("WrongLengthHeader") -> "WrongLengthHeader"
      [] e = Relay("UnexpectedDifficultyChange") -> "UnexpectedDifficultyChange"
      [] e = Relay("InsufficientWork") -> "InsufficientWork"
      [] e = Relay("InvalidChain") -> "InvalidChain"
      [] e = Relay("WrongDigest") -> "WrongDigest"
      [] e = Relay("WrongMerkleRoot") -> "WrongMerkleRoot"
      [] e = Relay("WrongPrevHash") -> "WrongPrevHash"
      [] e = Relay("InvalidVin") -> "InvalidVin"
      [] e = Relay("InvalidVout") -> "InvalidVout"
      [] e = Relay("WrongTxID") -> "WrongTxID"
      [] e = Relay("BadMerkleProof") -> "BadMerkleProof"
      [] e = Relay("OutputLengthMismatch") -> "OutputLengthMismatch"
      [] e = Relay("UnknownError") -> "UnknownError"

\* A copy-paste slip in one arm: WrongPrevHash answers WrongMerkleRoot.
FromSPVError_copyPaste(e) ==
    IF e = SPV("WrongPrevHash") THEN Relay("WrongMerkleRoot") ELSE Relay(e.variant)

\* A wildcard arm in place of the last arms: `_ => RelayError::UnknownError`.
FromSPVError_wildcard(e) ==
    IF e.variant \in {"ReadOverrun", "BadCompactInt", "WrongLengthHeader"}
    THEN Relay(e.variant)
    ELSE Relay("UnknownError")

\* impl From<SPVError> for RelayError, arm by arm.
FromSPVError(e) ==
    CASE e = SPV("ReadOverrun") -> Relay("ReadOverrun")
      [] e = SPV("BadCompactInt") -> Relay("BadCompactInt")
      [] e = SPV("MalformattedOpReturnOutput") -> Relay("MalformattedOpReturnOutput")
      [] e = SPV("MalformattedP2SHOutput") -> Relay("MalformattedP2SHOutput")
      [] e = SPV("MalformattedP2PKHOutput") -> Relay("MalformattedP2PKHOutput")
      [] e = SPV("MalformattedWitnessOutput") -> Relay("MalformattedWitnessOutput")
      [] e = SPV("MalformattedOutput") -> Relay("MalformattedOutput")
      [] e = SPV("WrongLengthHeader") -> Relay("WrongLengthHeader")
      [] e = SPV("UnexpectedDifficultyChange") -> Relay("UnexpectedDifficultyChange")
      [] e = SPV("InsufficientWork") -> Relay("InsufficientWork")
      [] e = SPV("InvalidChain") -> Relay("InvalidChain")
      [] e = SPV("WrongDigest") -> Relay("WrongDigest")
      [] e = SPV("WrongMerkleRoot") -> Relay("WrongMerkleRoot")
      [] e = SPV("WrongPrevHash") -> Relay("WrongPrevHash")
      [] e = SPV("InvalidVin") -> Relay("InvalidVin")
      [] e = SPV("InvalidVout") -> Relay("InvalidVout")
      [] e = SPV("WrongTxID") -> Relay("WrongTxID")
      [] e = SPV("BadMerkleProof") -> Relay("BadMerkleProof")
      [] e = SPV("OutputLengthMismatch") -> Relay("OutputLengthMismatch")
      [] e = SPV("UnknownError") -> Relay("UnknownError")

\* Discriminants counted from 1 instead of 0.
Discriminant_fromOne(e) ==
    CHOOSE i \in 1..Len(RelayErrorDecl) : RelayErrorDecl[i] = e

\* `e as u32`: the discriminant of a fieldless variant without explicit
\* discriminants is its position in the declaration, counted from 0.
Discriminant(e) ==
    (CHOOSE i \in 1..Len(RelayErrorDecl) : RelayErrorDecl[i] = e) - 1

\* ProgramError::Custom(code)
Custom(code) == [enum |-> "ProgramError", variant |-> "Custom", code |-> code]

\* impl From<RelayError> for ProgramError
IntoProgramError(e) == Custom(Discriminant(e))

\* Decoding that indexes the declaration with the code itself (off by one).
FromPrimitive_offByOne(n) ==
    IF n \in 1..Len(RelayErrorDecl) THEN RelayErrorDecl[n] ELSE None

\* #[derive(FromPrimitive)]: from_u32(n) compares n with each variant's
\* discriminant in declaration order and returns the first match, else None.
FromPrimitive(n) ==
    IF \E i \in 1..Len(RelayErrorDecl) : Discriminant(RelayErrorDecl[i]) = n
    THEN RelayErrorDecl[CHOOSE i \in 1..Len(RelayErrorDecl) :
                          /\ Discriminant(RelayErrorDecl[i]) = n
                          /\ \A j \in 1..(i - 1) : Discriminant(RelayErrorDecl[j]) # n]
    ELSE None

\* A copy-paste slip in one arm: InvalidVout logs the text of InvalidVin.
InfoMessage_copyPaste(e) ==
    IF e = Relay("InvalidVout")
    THEN "RelayError: InvalidVin"
    ELSE "RelayError: " \o e.variant

\* impl PrintProgramError for RelayError: the info! literal of each arm.
InfoMessage(e) ==
    CASE e = Relay("AlreadyInit") -> "RelayError: AlreadyInit"
      [] e = Relay("InsufficientStateSpace") -> "RelayError: InsufficientStateSpace"
      [] e = Relay("ReadOverrun") -> "RelayError: ReadOverrun"
      [] e = Relay("BadCompactInt") -> "RelayError: BadCompactInt"
      [] e = Relay("MalformattedOpReturnOutput") -> "RelayError: MalformattedOpReturnOutput"
      [] e = Relay("MalformattedP2SHOutput") -> "RelayError: MalformattedP2SHOutput"
      [] e = Relay("MalformattedP2PKHOutput") -> "RelayError: MalformattedP2PKHOutput"
      [] e = Relay("MalformattedWitnessOutput") -> "RelayError: MalformattedWitnessOutput"
      [] e = Relay("MalformattedOutput") -> "RelayError: MalformattedOutput"
      [] e = Relay("WrongLengthHeader") -> "RelayError: WrongLengthHeader"
      [] e = Relay("UnexpectedDifficultyChange") -> "RelayError: UnexpectedDifficultyChange"
      [] e = Relay("InsufficientWork") -> "RelayError: InsufficientWork"
      [] e = Relay("InvalidChain") -> "RelayError: InvalidChain"
      [] e = Relay("WrongDigest") -> "RelayError: WrongDigest"
      [] e = Relay("WrongMerkleRoot") -> "RelayError: WrongMerkleRoot"
      [] e = Relay("WrongPrevHash") -> "RelayError: WrongPrevHash"
      [] e = Relay("InvalidVin") -> "RelayError: InvalidVin"
      [] e = Relay("InvalidVout") -> "RelayError: InvalidVout"
      [] e = Relay("WrongTxID") -> "RelayError: WrongTxID"
      [] e = Relay("BadMerkleProof") -> "RelayError: BadMerkleProof"
      [] e = Relay("OutputLengthMismatch") -> "RelayError: OutputLengthMismatch"
      [] e = Relay("UnknownError") -> "RelayError: UnknownError"

-----------------------------------------------------------------------------

Init ==
    /\ pc = "idle"
    /\ spvErr = None
    /\ relayErr = None
    /\ progErr = None
    /\ decoded = None
    /\ log = << >>

\* The SPV engine returns Err(e): a value of type SPVError.
EngineFails(e) ==
    /\ pc = "idle"
    /\ pc' = "spv"
    /\ spvErr' = e
    /\ UNCHANGED <<relayErr, progErr, decoded, log>>

\* RelayError::from(e) on the engine's error.
ConvertSPVError ==
    /\ pc = "spv"
    /\ relayErr' = FromSPVError(spvErr)
    /\ pc' = "relay"
    /\ UNCHANGED <<spvErr, progErr, decoded, log>>

\* The relay constructs a RelayError value itself.
RelayFails(e) ==
    /\ pc = "idle"
    /\ relayErr' = e
    /\ pc' = "relay"
    /\ UNCHANGED <<spvErr, progErr, decoded, log>>

\* ProgramError::from(e) on the relay's error.
ConvertRelayError ==
    /\ pc = "relay"
    /\ progErr' = IntoProgramError(relayErr)
    /\ pc' = "program"
    /\ UNCHANGED <<spvErr, relayErr, decoded, log>>

\* The host holds a raw custom code that no RelayError produced.
HostCode(n) ==
    /\ pc = "idle"
    /\ progErr' = Custom(n)
    /\ pc' = "program"
    /\ UNCHANGED <<spvErr, relayErr, decoded, log>>

\* RelayError::from_u32(code) on the custom code.
Decode ==
    /\ pc = "program"
    /\ decoded' = FromPrimitive(progErr.code)
    /\ pc' = "decoded"
    /\ UNCHANGED <<spvErr, relayErr, progErr, log>>

\* e.print::<E>() on the decoded error.
PrintProgramError ==
    /\ pc = "decoded"
    /\ decoded # None
    /\ Len(log) < MaxLog
    /\ log' = Append(log, InfoMessage(decoded))
    /\ pc' = "printed"
    /\ UNCHANGED <<spvErr, relayErr, progErr, decoded>>

\* The call returns; the values of the call are dropped, the log stays.
Return ==
    /\ pc \in {"decoded", "printed"}
    /\ pc' = "idle"
    /\ spvErr' = None
    /\ relayErr' = None
    /\ progErr' = None
    /\ decoded' = None
    /\ UNCHANGED log

Next ==
    \/ \E e \in SPVErrorVariants : EngineFails(e)
    \/ ConvertSPVError
    \/ \E e \in RelayErrorVariants : RelayFails(e)
    \/ ConvertRelayError
    \/ \E n \in 0..MaxCode : HostCode(n)
    \/ Decode
    \/ PrintProgramError
    \/ Return

Spec == Init /\ [][Next]_vars

-----------------------------------------------------------------------------
(* Properties *)

\* The SPVError variants that From<SPVError> sends to r.
Preimage(r) == { e \in SPVErrorVariants : FromSPVError(e) = r }

\* The two variants RelayError declares on top of those copied from SPVError.
RelayOnly == { Relay("AlreadyInit"), Relay("InsufficientStateSpace") }

\* C1 (as stated): From<SPVError> is a one-to-one correspondence between
\* the two enumerations: the error converted from an SPVError is a RelayError
\* variant, and every RelayError value the relay holds is the image of
\* exactly one SPVError variant.
C1_OneToOne ==
    /\ (spvErr # None /\ relayErr # None) => relayErr \in RelayErrorVariants
    /\ relayErr # None => Cardinality(Preimage(relayErr)) = 1

\* C1 (amended): From<SPVError> is total and injective: the error converted
\* from an SPVError e is a RelayError variant whose only preimage is e.
\* Every RelayError variant except AlreadyInit and InsufficientStateSpace is
\* the image of exactly one SPVError variant; those two are the image of
\* none.
C1_InjectiveOntoCopied ==
    /\ (spvErr # None /\ relayErr # None) =>
          /\ relayErr \in RelayErrorVariants
          /\ Preimage(relayErr) = {spvErr}
    /\ (relayErr # None /\ relayErr \notin RelayOnly) =>
          Cardinality(Preimage(relayErr)) = 1
    /\ (relayErr # None /\ relayErr \in RelayOnly) => Preimage(relayErr) = {}

C1_Witness ==
    /\ pc = "relay"
    /\ spvErr = SPV("WrongPrevHash")
    /\ relayErr = Relay("WrongPrevHash")

\* C2: the custom code of a RelayError is the code of that kind alone: no
\* other kind receives it, and decoding it with from_u32 returns the
\* original kind.
C2_CodeRoundTrip ==
    /\ (relayErr # None /\ progErr # None) =>
          /\ progErr.enum = "ProgramError"
          /\ progErr.variant = "Custom"
          /\ progErr = IntoProgramError(relayErr)
          /\ \A r \in RelayErrorVariants \ {relayErr} :
                IntoProgramError(r).code # progErr.code
    /\ (relayErr # None /\ pc \in {"decoded", "printed"}) => decoded = relayErr

C2_Witness ==
    /\ pc = "decoded"
    /\ relayErr = Relay("UnknownError")
    /\ decoded = Relay("UnknownError")

\* C3: the RelayError converted from an SPVError has the same name as the
\* SPVError; it is UnknownError only for SPVError::UnknownError and is never
\* AlreadyInit or InsufficientStateSpace.
C3_SameKind ==
    (spvErr # None /\ relayErr # None) =>
        /\ relayErr.enum = "RelayError"
        /\ relayErr.variant = spvErr.variant
        /\ (relayErr = Relay("UnknownError") => spvErr = SPV("UnknownError"))
        /\ relayErr \notin RelayOnly

C3_Witness ==
    /\ pc = "relay"
    /\ spvErr = SPV("BadMerkleProof")
    /\ relayErr = Relay("BadMerkleProof")

\* C9: a print call appends exactly one message to the log, the message is
\* "RelayError: " followed by the variant's display string, the display
\* string is the variant's name, and no other variant prints that message.
C9_PrintsDisplay ==
    [][pc' = "printed" =>
          /\ log' = Append(log, "RelayError: " \o Display(decoded))
          /\ Display(decoded) = decoded.variant
          /\ \A r \in RelayErrorVariants \ {decoded} :
                InfoMessage(r) # log'[Len(log')]]_vars

C9_Witness ==
    /\ pc = "printed"
    /\ decoded = Relay("InvalidVout")
    /\ log[Len(log)] = "RelayError: InvalidVout"

\* C10: codes follow the declaration order from 0 without gaps
\* (AlreadyInit = 0, InsufficientStateSpace = 1, ReadOverrun = 2, ...,
\* UnknownError = 21); the code of an error that came from an SPVError is
\* in 2..21, is never 0 or 1, and belongs to no other SPVError.
C10_CodeRange ==
    /\ (relayErr # None /\ progErr # None) =>
          /\ progErr.code \in 0..21
          /\ relayErr = RelayErrorDecl[progErr.code + 1]
          /\ (relayErr = Relay("AlreadyInit") <=> progErr.code = 0)
          /\ (relayErr = Relay("InsufficientStateSpace") <=> progErr.code = 1)
          /\ (relayErr = Relay("ReadOverrun") <=> progErr.code = 2)
          /\ (relayErr = Relay("UnknownError") <=> progErr.code = 21)
    /\ (spvErr # None /\ progErr # None) =>
          /\ progErr.code \in 2..21
          /\ \A e \in SPVErrorVariants \ {spvErr} :
                IntoProgramError(FromSPVError(e)).code # progErr.code

C10_Witness ==
    /\ pc = "program"
    /\ spvErr = SPV("ReadOverrun")
    /\ progErr = Custom(2)

====
